---- MODULE Spec2Model ----
(***************************************************************************)
(* AlgoSearch-Visualizer: the three containers of data_structures.py, the  *)
(* three search engines and the dispatcher of search_algorithms.py, and    *)
(* the compatibility tables of main.py and performance_testing.py.         *)
(*                                                                         *)
(* One behaviour follows one container object from its construction        *)
(* through any sequence of method calls and searches.  Wall-clock fields   *)
(* (SearchStep.timestamp, SearchResult.time_taken) are left out: they are  *)
(* read from time.time() and no modelled operation depends on them.        *)
(***************************************************************************)
EXTENDS Integers, Sequences, FiniteSets, TLC

\* ---- bounds ------------------------------------------------------------
MaxVal == 2      \* array and linked-list elements are 1..MaxVal
MaxKey == 3      \* tree keys are 1..MaxKey
MaxLen == 4      \* elements in an array or linked list
MaxNodes == 3    \* nodes in a tree
MaxInit == 2     \* length of the sequence handed to a constructor
MaxHist == 2     \* log length up to which a caller issues a positional read
MaxPop == 2      \* size argument of generate_random_data
MaxTests == 1    \* test_count of a performance test
MaxTime == 1     \* measured duration of one search, in clock ticks

Values == 1..MaxVal
Keys == 1..MaxKey
\* search targets: every stored value, one below and one above them
Targets(k) == IF k = "binary_search_tree" THEN 0..(MaxKey + 1) ELSE 0..(MaxVal + 1)
AllTargets == Targets("array") \cup Targets("binary_search_tree")
Kinds == {"array", "linked_list", "binary_search_tree"}
AlgorithmNames == {"linear", "binary", "bst"}
\* names outside the tables, among them ones that differ only in case
UnknownKinds == {"heap", "Array"}
UnknownAlgorithms == {"hash", "Linear"}

\* Python's None, for the integer fields (index, value) and the string field
None == -1
NoneStr == "None"

SeqsUpTo(S, n) == UNION {[1..k -> S] : k \in 0..n}

\* ---- SearchStep / SearchResult -------------------------------------------
SearchStep(step_num, action, index, value, comparison, found) ==
    [step_num |-> step_num, action |-> action, index |-> index,
     value |-> value, comparison |-> comparison, found |-> found]

SearchResult(found, index, steps, comparisons) ==
    [found |-> found, index |-> index, steps |-> steps, comparisons |-> comparisons]

NoResult == SearchResult(FALSE, None, <<>>, None)

\* ---- containers ----------------------------------------------------------
\* A container object is a record of its fields.  The linked list's chain of
\* ListNode objects (head, next, next, ...) is the sequence `data` of the
\* node values in chain order.  The tree's TreeNode objects live in `nodes`
\* in allocation order; left/right/root hold a position in `nodes`, 0 = None.
EmptyTree == [root |-> 0, nodes |-> <<>>]

TreeNode(val) == [val |-> val, left |-> 0, right |-> 0]

SearchableArray_init(d) ==
    [kind |-> "array", data |-> d, size |-> Len(d), tree |-> EmptyTree,
     access_history |-> <<>>]

\* The guard tests the size field; self.data[index] is Python's own list
\* access, which raises IndexError past the end of the list (after the index
\* was logged).
SearchableArray_getitem(ds, index) ==
    IF 0 <= index /\ index < ds.size
    THEN LET logged == [ds EXCEPT !.access_history = Append(@, index)]
         IN IF index < Len(ds.data)
            THEN [ds |-> logged, ret |-> ds.data[index + 1], exc |-> ""]
            ELSE [ds |-> logged, ret |-> None, exc |-> "IndexError"]
    ELSE [ds |-> ds, ret |-> None, exc |-> "IndexError"]

SearchableArray_setitem(ds, index, value) ==
    IF 0 <= index /\ index < ds.size /\ index < Len(ds.data)
    THEN [ds |-> [ds EXCEPT !.data[index + 1] = value], exc |-> ""]
    ELSE [ds |-> ds, exc |-> "IndexError"]

SearchableArray_append(ds, value) ==
    [ds EXCEPT !.data = Append(@, value), !.size = @ + 1]

clear_history(ds) == [ds EXCEPT !.access_history = <<>>]

get_access_history(ds) == ds.access_history

\* list.sort(): insertion of each element into an ascending prefix
RECURSIVE InsertSorted(_, _)
InsertSorted(s, v) ==
    IF s = <<>> THEN <<v>>
    ELSE IF v < Head(s) THEN <<v>> \o s
    ELSE <<Head(s)>> \o InsertSorted(Tail(s), v)

RECURSIVE list_sort(_)
list_sort(s) == IF s = <<>> THEN <<>> ELSE InsertSorted(list_sort(Tail(s)), Head(s))

SearchableArray_sort(ds) == [ds EXCEPT !.data = list_sort(@)]

\* ---- linked list ----
SearchableLinkedList_append(ds, value) ==
    [ds EXCEPT !.data = Append(@, value), !.size = @ + 1]

RECURSIVE SearchableLinkedList_appendAll(_, _)
SearchableLinkedList_appendAll(ds, d) ==
    IF d = <<>> THEN ds
    ELSE SearchableLinkedList_appendAll(SearchableLinkedList_append(ds, Head(d)), Tail(d))

SearchableLinkedList_init(d) ==
    SearchableLinkedList_appendAll(
        [kind |-> "linked_list", data |-> <<>>, size |-> 0, tree |-> EmptyTree,
         access_history |-> <<>>], d)

\* variant: the position is logged, as the array does
SearchableLinkedList_get_node_at_logindex(ds, index) ==
    IF index < 0 \/ index >= ds.size
    THEN [ds |-> ds, node |-> 0]
    ELSE [ds |-> [ds EXCEPT !.access_history = Append(@, index)],
          node |-> index + 1]

\* get_node_at: None (position 0) when out of range, else the node reached
\* after `index` hops from the head, whose value is logged
SearchableLinkedList_get_node_at(ds, index) ==
    IF index < 0 \/ index >= ds.size
    THEN [ds |-> ds, node |-> 0]
    ELSE [ds |-> [ds EXCEPT !.access_history = Append(@, ds.data[index + 1])],
          node |-> index + 1]

SearchableLinkedList_get_value_at(ds, index) ==
    LET r == SearchableLinkedList_get_node_at(ds, index)
    IN [ds |-> r.ds, ret |-> IF r.node # 0 THEN ds.data[r.node] ELSE None]

to_list(ds) == ds.data

\* ---- binary search tree ----
\* variant: an equal key is stored again, to the right
RECURSIVE BinarySearchTree_insert_recursive_dup(_, _, _)
BinarySearchTree_insert_recursive_dup(ds, node, value) ==
    LET n == ds.tree.nodes[node]
        new == Len(ds.tree.nodes) + 1
    IN IF value < n.val
       THEN IF n.left = 0
            THEN [ds EXCEPT !.tree.nodes = Append([@ EXCEPT ![node].left = new], TreeNode(value)),
                            !.size = @ + 1]
            ELSE BinarySearchTree_insert_recursive_dup(ds, n.left, value)
       ELSE IF n.right = 0
            THEN [ds EXCEPT !.tree.nodes = Append([@ EXCEPT ![node].right = new], TreeNode(value)),
                            !.size = @ + 1]
            ELSE BinarySearchTree_insert_recursive_dup(ds, n.right, value)

RECURSIVE BinarySearchTree_insert_recursive(_, _, _)
BinarySearchTree_insert_recursive(ds, node, value) ==
    LET n == ds.tree.nodes[node]
        new == Len(ds.tree.nodes) + 1
    IN IF value < n.val
       THEN IF n.left = 0
            THEN [ds EXCEPT !.tree.nodes = Append([@ EXCEPT ![node].left = new], TreeNode(value)),
                            !.size = @ + 1]
            ELSE BinarySearchTree_insert_recursive(ds, n.left, value)
       ELSE IF value > n.val
       THEN IF n.right = 0
            THEN [ds EXCEPT !.tree.nodes = Append([@ EXCEPT ![node].right = new], TreeNode(value)),
                            !.size = @ + 1]
            ELSE BinarySearchTree_insert_recursive(ds, n.right, value)
       ELSE ds

\* variant: the insert into an empty tree leaves the counter alone
BinarySearchTree_insert_nocount(ds, value) ==
    IF ds.tree.root = 0
    THEN [ds EXCEPT !.tree = [root |-> 1, nodes |-> <<TreeNode(value)>>]]
    ELSE BinarySearchTree_insert_recursive(ds, ds.tree.root, value)

BinarySearchTree_insert(ds, value) ==
    IF ds.tree.root = 0
    THEN [ds EXCEPT !.tree = [root |-> 1, nodes |-> <<TreeNode(value)>>], !.size = 1]
    ELSE BinarySearchTree_insert_recursive(ds, ds.tree.root, value)

RECURSIVE BinarySearchTree_insertAll(_, _)
BinarySearchTree_insertAll(ds, d) ==
    IF d = <<>> THEN ds
    ELSE BinarySearchTree_insertAll(BinarySearchTree_insert(ds, Head(d)), Tail(d))

BinarySearchTree_init(d) ==
    BinarySearchTree_insertAll(
        [kind |-> "binary_search_tree", data |-> <<>>, size |-> 0, tree |-> EmptyTree,
         access_history |-> <<>>], d)

\* variant: the two descent directions are exchanged
RECURSIVE BinarySearchTree_search_recursive_swapped(_, _, _)
BinarySearchTree_search_recursive_swapped(ds, node, target) ==
    IF node = 0 THEN [ds |-> ds, found |-> FALSE]
    ELSE LET n == ds.tree.nodes[node]
             ds1 == [ds EXCEPT !.access_history = Append(@, n.val)]
         IN IF target = n.val THEN [ds |-> ds1, found |-> TRUE]
            ELSE IF target > n.val
            THEN BinarySearchTree_search_recursive_swapped(ds1, n.left, target)
            ELSE BinarySearchTree_search_recursive_swapped(ds1, n.right, target)

\* _search_recursive: returns the found flag and the container with its log
RECURSIVE BinarySearchTree_search_recursive(_, _, _)
BinarySearchTree_search_recursive(ds, node, target) ==
    IF node = 0 THEN [ds |-> ds, found |-> FALSE]
    ELSE LET n == ds.tree.nodes[node]
             ds1 == [ds EXCEPT !.access_history = Append(@, n.val)]
         IN IF target = n.val THEN [ds |-> ds1, found |-> TRUE]
            ELSE IF target < n.val
            THEN BinarySearchTree_search_recursive(ds1, n.left, target)
            ELSE BinarySearchTree_search_recursive(ds1, n.right, target)

\* variant: the log is not cleared before the descent
BinarySearchTree_search_with_history_noclear(ds, target) ==
    LET r == BinarySearchTree_search_recursive(ds, ds.tree.root, target)
    IN [ds |-> r.ds, found |-> r.found, history |-> get_access_history(r.ds)]

BinarySearchTree_search_with_history(ds, target) ==
    LET r == BinarySearchTree_search_recursive(clear_history(ds), ds.tree.root, target)
    IN [ds |-> r.ds, found |-> r.found, history |-> get_access_history(r.ds)]

RECURSIVE BinarySearchTree_inorder_recursive(_, _, _)
BinarySearchTree_inorder_recursive(t, node, result) ==
    IF node = 0 THEN result
    ELSE LET n == t.nodes[node]
             r1 == BinarySearchTree_inorder_recursive(t, n.left, result)
         IN BinarySearchTree_inorder_recursive(t, n.right, Append(r1, n.val))

inorder_traversal(ds) == BinarySearchTree_inorder_recursive(ds.tree, ds.tree.root, <<>>)

\* ---- generate_random_data --------------------------------------------------
\* The random draws are an argument: every list random.randint can produce,
\* every list random.sample can produce.
RandInts(n, min_val, max_val) == [1..n -> min_val..max_val]

Min(a, b) == IF a <= b THEN a ELSE b

RandomSample(min_val, max_val, k) ==
    {s \in [1..k -> min_val..max_val] : \A i, j \in 1..k : i # j => s[i] # s[j]}

\* variant: the log is kept
SearchableArray_generate_random_data_keeplog(ds, n, vals) ==
    [ds EXCEPT !.data = vals, !.size = n]

SearchableArray_generate_random_data(ds, n, vals) ==
    clear_history([ds EXCEPT !.data = vals, !.size = n])

SearchableLinkedList_generate_random_data(ds, vals) ==
    SearchableLinkedList_appendAll(
        clear_history([ds EXCEPT !.data = <<>>, !.size = 0]), vals)

\* variant: the old tree is kept and the new values are inserted into it
BinarySearchTree_generate_random_data_keep(ds, vals) ==
    BinarySearchTree_insertAll(clear_history(ds), vals)

BinarySearchTree_generate_random_data(ds, vals) ==
    BinarySearchTree_insertAll(
        clear_history([ds EXCEPT !.tree = EmptyTree, !.size = 0]), vals)

\* the lists the random source can hand to generate_random_data(n, min_val, max_val)
Draws(k, n, min_val, max_val) ==
    IF k = "binary_search_tree"
    THEN RandomSample(min_val, max_val, Min(n, max_val - min_val + 1))
    ELSE RandInts(n, min_val, max_val)

generate_random_data(ds, n, vals) ==
    IF ds.kind = "array" THEN SearchableArray_generate_random_data(ds, n, vals)
    ELSE IF ds.kind = "linked_list" THEN SearchableLinkedList_generate_random_data(ds, vals)
    ELSE BinarySearchTree_generate_random_data(ds, vals)

\* the object a failed call leaves the caller without
NoContainer ==
    [kind |-> "none", data |-> <<>>, size |-> 0, tree |-> EmptyTree,
     access_history |-> <<>>]

create_data_structure(ds_type, d) ==
    IF ds_type = "array" THEN [ds |-> SearchableArray_init(d), exc |-> ""]
    ELSE IF ds_type = "linked_list" THEN [ds |-> SearchableLinkedList_init(d), exc |-> ""]
    ELSE IF ds_type = "binary_search_tree" THEN [ds |-> BinarySearchTree_init(d), exc |-> ""]
    ELSE [ds |-> NoContainer, exc |-> "ValueError"]

\* ---- search engines ------------------------------------------------------
\* Every engine returns the container as the call leaves it (only the log can
\* differ), the SearchResult, and the exception raised ("" when none).
Raise(ds, e) == [ds |-> ds, result |-> NoResult, exc |-> e]

\* the verdict chain of LinearSearch and BinarySearch
Verdict(value, target) ==
    IF value = target THEN "equal"
    ELSE IF value < target THEN "less"
    ELSE "greater"

\* variant: the verdict names the side the descent takes
BSTVerdict_direction(value, target) ==
    IF value = target THEN "equal"
    ELSE IF value > target THEN "less"
    ELSE "greater"

\* the verdict chain of BSTSearch
BSTVerdict(value, target) ==
    IF value = target THEN "equal"
    ELSE IF value > target THEN "greater"
    ELSE "less"

\* variant: the step number is counted from 0
NotFoundStep_zero(steps) == SearchStep(Len(steps), "not_found", None, None, NoneStr, FALSE)

NotFoundStep(steps) == SearchStep(Len(steps) + 1, "not_found", None, None, NoneStr, FALSE)

\* variant: a move step repeats the number of the compare step before it
MoveStep_same(steps, tag) == SearchStep(Len(steps), "move", None, None, tag, FALSE)

MoveStep(steps, tag) == SearchStep(Len(steps) + 1, "move", None, None, tag, FALSE)

\* the for loop of _search_array from position i on, n = len(arr) at loop entry
RECURSIVE LinearSearch_search_array_loop(_, _, _, _, _, _)
LinearSearch_search_array_loop(arr, target, n, i, steps, comparisons) ==
    IF i >= n
    THEN [ds |-> arr,
          result |-> SearchResult(FALSE, None, Append(steps, NotFoundStep(steps)), comparisons),
          exc |-> ""]
    ELSE LET r == SearchableArray_getitem(arr, i)
             value == r.ret
             c == comparisons + 1
             found == (value = target)
             step == SearchStep(Len(steps) + 1, "compare", i, value, Verdict(value, target), found)
             steps1 == Append(steps, step)
         IN IF r.exc # "" THEN Raise(r.ds, r.exc)
            ELSE IF found
            THEN [ds |-> r.ds, result |-> SearchResult(TRUE, i, steps1, c), exc |-> ""]
            ELSE LinearSearch_search_array_loop(r.ds, target, n, i + 1, steps1, c)

\* variant: the log is not emptied before the scan
LinearSearch_search_array_keeplog(arr, target, steps) ==
    LinearSearch_search_array_loop(arr, target, arr.size, 0, steps, 0)

\* variant: the scan starts at position 1
LinearSearch_search_array_from1(arr, target, steps) ==
    LET a == clear_history(arr)
    IN LinearSearch_search_array_loop(a, target, a.size, 1, steps, 0)

LinearSearch_search_array(arr, target, steps) ==
    LET a == clear_history(arr)
    IN LinearSearch_search_array_loop(a, target, a.size, 0, steps, 0)

RECURSIVE LinearSearch_search_linked_list_loop(_, _, _, _, _, _)
LinearSearch_search_linked_list_loop(ll, target, n, i, steps, comparisons) ==
    IF i >= n
    THEN [ds |-> ll,
          result |-> SearchResult(FALSE, None, Append(steps, NotFoundStep(steps)), comparisons),
          exc |-> ""]
    ELSE LET r == SearchableLinkedList_get_value_at(ll, i)
             value == r.ret
             c == comparisons + 1
             found == (value = target)
             step == SearchStep(Len(steps) + 1, "compare", i, value, Verdict(value, target), found)
             steps1 == Append(steps, step)
         IN IF found
            THEN [ds |-> r.ds, result |-> SearchResult(TRUE, i, steps1, c), exc |-> ""]
            ELSE LinearSearch_search_linked_list_loop(r.ds, target, n, i + 1, steps1, c)

\* variant: the scan runs one position past the tail
LinearSearch_search_linked_list_over(ll, target, steps) ==
    LET l == clear_history(ll)
    IN LinearSearch_search_linked_list_loop(l, target, l.size + 1, 0, steps, 0)

\* variant: the scan stops one position short of the tail
LinearSearch_search_linked_list_short(ll, target, steps) ==
    LET l == clear_history(ll)
    IN LinearSearch_search_linked_list_loop(l, target, l.size - 1, 0, steps, 0)

LinearSearch_search_linked_list(ll, target, steps) ==
    LET l == clear_history(ll)
    IN LinearSearch_search_linked_list_loop(l, target, l.size, 0, steps, 0)

\* variant: the log is cleared before the type guard is reached
LinearSearch_search_clearfirst(ds, target) ==
    IF ds.kind = "array" THEN LinearSearch_search_array(ds, target, <<>>)
    ELSE IF ds.kind = "linked_list" THEN LinearSearch_search_linked_list(ds, target, <<>>)
    ELSE Raise(clear_history(ds), "ValueError")

LinearSearch_search(ds, target) ==
    IF ds.kind = "array" THEN LinearSearch_search_array(ds, target, <<>>)
    ELSE IF ds.kind = "linked_list" THEN LinearSearch_search_linked_list(ds, target, <<>>)
    ELSE Raise(ds, "ValueError")

\* variant: probes the low end of the window instead of its middle
Mid_low(left, right) == left

\* variant: the midpoint is rounded up
Mid_ceil(left, right) == (left + right + 1) \div 2

Mid(left, right) == (left + right) \div 2

\* variant: no move step is recorded when the window shrinks to the left
RECURSIVE BinarySearch_loop_nomoveleft(_, _, _, _, _, _)
BinarySearch_loop_nomoveleft(arr, target, left, right, steps, comparisons) ==
    IF ~(left <= right)
    THEN [ds |-> arr,
          result |-> SearchResult(FALSE, None, Append(steps, NotFoundStep(steps)), comparisons),
          exc |-> ""]
    ELSE LET mid == Mid(left, right)
             r == SearchableArray_getitem(arr, mid)
             value == r.ret
             c == comparisons + 1
             found == (value = target)
             step == SearchStep(Len(steps) + 1, "compare", mid, value, Verdict(value, target), found)
             steps1 == Append(steps, step)
         IN IF r.exc # "" THEN Raise(r.ds, r.exc)
            ELSE IF found
            THEN [ds |-> r.ds, result |-> SearchResult(TRUE, mid, steps1, c), exc |-> ""]
            ELSE IF value < target
            THEN BinarySearch_loop_nomoveleft(r.ds, target, mid + 1, right,
                                   Append(steps1, MoveStep(steps1, "move_right")), c)
            ELSE BinarySearch_loop_nomoveleft(r.ds, target, left, mid - 1, steps1, c)

\* the while loop of BinarySearch.search
RECURSIVE BinarySearch_loop(_, _, _, _, _, _)
BinarySearch_loop(arr, target, left, right, steps, comparisons) ==
    IF ~(left <= right)
    THEN [ds |-> arr,
          result |-> SearchResult(FALSE, None, Append(steps, NotFoundStep(steps)), comparisons),
          exc |-> ""]
    ELSE LET mid == Mid(left, right)
             r == SearchableArray_getitem(arr, mid)
             value == r.ret
             c == comparisons + 1
             found == (value = target)
             step == SearchStep(Len(steps) + 1, "compare", mid, value, Verdict(value, target), found)
             steps1 == Append(steps, step)
         IN IF r.exc # "" THEN Raise(r.ds, r.exc)
            ELSE IF found
            THEN [ds |-> r.ds, result |-> SearchResult(TRUE, mid, steps1, c), exc |-> ""]
            ELSE IF value < target
            THEN BinarySearch_loop(r.ds, target, mid + 1, right,
                                   Append(steps1, MoveStep(steps1, "move_right")), c)
            ELSE BinarySearch_loop(r.ds, target, left, mid - 1,
                                   Append(steps1, MoveStep(steps1, "move_left")), c)

\* variant: the engine sorts the array itself before searching
BinarySearch_search_sorting(ds, target) ==
    IF ds.kind # "array" THEN Raise(ds, "ValueError")
    ELSE LET a == SearchableArray_sort(clear_history(ds))
         IN BinarySearch_loop(a, target, 0, a.size - 1, <<>>, 0)

\* variant: the window's upper end starts at size instead of size - 1
BinarySearch_search_high(ds, target) ==
    IF ds.kind # "array" THEN Raise(ds, "ValueError")
    ELSE LET a == clear_history(ds)
         IN BinarySearch_loop(a, target, 0, a.size, <<>>, 0)

BinarySearch_search(ds, target) ==
    IF ds.kind # "array" THEN Raise(ds, "ValueError")
    ELSE LET a == clear_history(ds)
         IN BinarySearch_loop(a, target, 0, a.size - 1, <<>>, 0)

\* the for loop of BSTSearch.search over enumerate(access_history), from
\* position i (0-based) on; it stops after a step whose value is the target
RECURSIVE BSTSearch_steps(_, _, _, _)
BSTSearch_steps(history, target, i, steps) ==
    IF i >= Len(history) THEN steps
    ELSE LET value == history[i + 1]
             step_found == (value = target)
             step == SearchStep(i + 1, "compare", None, value, BSTVerdict(value, target), step_found)
             steps1 == Append(steps, step)
         IN IF step_found THEN steps1
            ELSE BSTSearch_steps(history, target, i + 1, steps1)

\* variant: a found key is reported with its depth as position
BSTSearch_search_withindex(ds, target) ==
    IF ds.kind # "binary_search_tree" THEN Raise(ds, "ValueError")
    ELSE LET r == BinarySearchTree_search_with_history(ds, target)
             comparisons == Len(r.history)
             steps == BSTSearch_steps(r.history, target, 0, <<>>)
             steps1 == IF ~r.found THEN Append(steps, NotFoundStep(steps)) ELSE steps
         IN [ds |-> r.ds,
             result |-> SearchResult(r.found, IF r.found THEN comparisons - 1 ELSE None,
                                     steps1, comparisons),
             exc |-> ""]

\* variant: a miss adds no step to the path
BSTSearch_search_pathonly(ds, target) ==
    IF ds.kind # "binary_search_tree" THEN Raise(ds, "ValueError")
    ELSE LET r == BinarySearchTree_search_with_history(ds, target)
             comparisons == Len(r.history)
             steps == BSTSearch_steps(r.history, target, 0, <<>>)
         IN [ds |-> r.ds, result |-> SearchResult(r.found, None, steps, comparisons), exc |-> ""]

\* variant: the comparison count is taken after the not_found step is added
BSTSearch_search_countall(ds, target) ==
    IF ds.kind # "binary_search_tree" THEN Raise(ds, "ValueError")
    ELSE LET r == BinarySearchTree_search_with_history(ds, target)
             steps == BSTSearch_steps(r.history, target, 0, <<>>)
             steps1 == IF ~r.found THEN Append(steps, NotFoundStep(steps)) ELSE steps
             comparisons == Len(steps1)
         IN [ds |-> r.ds, result |-> SearchResult(r.found, None, steps1, comparisons), exc |-> ""]

BSTSearch_search(ds, target) ==
    IF ds.kind # "binary_search_tree" THEN Raise(ds, "ValueError")
    ELSE LET r == BinarySearchTree_search_with_history(ds, target)
             comparisons == Len(r.history)
             steps == BSTSearch_steps(r.history, target, 0, <<>>)
             steps1 == IF ~r.found THEN Append(steps, NotFoundStep(steps)) ELSE steps
         IN [ds |-> r.ds, result |-> SearchResult(r.found, None, steps1, comparisons), exc |-> ""]

\* ---- dispatcher ----------------------------------------------------------
SearchAlgorithmFactory_algorithms == {"linear", "binary", "bst"}

\* variant: an unknown name falls back to the linear engine
SearchAlgorithmFactory_get_algorithm_default(name) ==
    IF name \notin SearchAlgorithmFactory_algorithms
    THEN [engine |-> "linear", exc |-> ""]
    ELSE [engine |-> name, exc |-> ""]

\* the engine instance is named by its key in the table
SearchAlgorithmFactory_get_algorithm(name) ==
    IF name \notin SearchAlgorithmFactory_algorithms
    THEN [engine |-> "none", exc |-> "ValueError"]
    ELSE [engine |-> name, exc |-> ""]

SearchAlgorithmFactory_search(algorithm_name, ds, target) ==
    LET algorithm == SearchAlgorithmFactory_get_algorithm(algorithm_name)
    IN IF algorithm.exc # "" THEN Raise(ds, algorithm.exc)
       ELSE IF algorithm.engine = "linear" THEN LinearSearch_search(ds, target)
       ELSE IF algorithm.engine = "binary" THEN BinarySearch_search(ds, target)
       ELSE BSTSearch_search(ds, target)

\* ---- calling-layer compatibility tables ------------------------------------
\* main.py
get_compatible_algorithms(ds_type) ==
    IF ds_type = "array" THEN {"linear", "binary"}
    ELSE IF ds_type = "linked_list" THEN {"linear"}
    ELSE IF ds_type = "binary_search_tree" THEN {"bst"}
    ELSE {}

\* the option a selectbox shows when its option list is drawn anew: the first
\* of ["linear", "binary"], ["linear"], ["bst"]
FirstOption(ds_type) == IF ds_type = "binary_search_tree" THEN "bst" ELSE "linear"

\* "if algorithm == 'binary' and hasattr(data_structure, 'sort')": only
\* SearchableArray has a sort method
SortForBinary(algorithm, ds) ==
    IF algorithm = "binary" /\ ds.kind = "array" THEN SearchableArray_sort(ds) ELSE ds

\* ---- replay controller (visualization.py) -----------------------------------
\* SearchResult(found) with every other argument left at its default
SearchResult_init(found) == SearchResult(found, None, <<>>, 0)

SearchVisualizationController_setup_search(c, search_result) ==
    [c EXCEPT !.search_result = search_result, !.is_set = TRUE, !.current_step = 0,
              !.before = c.current_step, !.ret = FALSE]

\* variant: the last step can be stepped past
SearchVisualizationController_next_step_over(c) ==
    IF c.current_step <= Len(c.search_result.steps) - 1
    THEN [c EXCEPT !.current_step = @ + 1, !.before = c.current_step, !.ret = TRUE]
    ELSE [c EXCEPT !.before = c.current_step, !.ret = FALSE]

SearchVisualizationController_next_step(c) ==
    IF c.current_step < Len(c.search_result.steps) - 1
    THEN [c EXCEPT !.current_step = @ + 1, !.before = c.current_step, !.ret = TRUE]
    ELSE [c EXCEPT !.before = c.current_step, !.ret = FALSE]

SearchVisualizationController_previous_step(c) ==
    IF c.current_step > 0
    THEN [c EXCEPT !.current_step = @ - 1, !.before = c.current_step, !.ret = TRUE]
    ELSE [c EXCEPT !.before = c.current_step, !.ret = FALSE]

SearchVisualizationController_reset(c) ==
    [c EXCEPT !.current_step = 0, !.before = c.current_step, !.ret = FALSE]

\* the step get_step_info reports, as its 1-based number; 0 stands for the
\* empty dict it returns when there is no result or no such step
SearchVisualizationController_get_step_info(c) ==
    IF ~c.is_set \/ c.current_step >= Len(c.search_result.steps) THEN 0
    ELSE c.search_result.steps[c.current_step + 1].step_num

\* performance_testing.py
PerformanceTester_is_compatible(algorithm, data_structure_type) ==
    data_structure_type \in
        (IF algorithm = "linear" THEN {"array", "linked_list"}
         ELSE IF algorithm = "binary" THEN {"array"}
         ELSE IF algorithm = "bst" THEN {"binary_search_tree"}
         ELSE {})

\* ---- state ----------------------------------------------------------------
VARIABLES
    kind,            \* class of the container object
    data,            \* SearchableArray.data / the linked list's chain of values
    size,            \* the container's size field
    tree,            \* BinarySearchTree.root and its nodes
    access_history,  \* the container's access_history field
    call,            \* the most recent call on the container and what it returned;
                     \* for a search, prev is the search that returned just before
                     \* it, when that one had the same algorithm and target
    inserted,        \* values handed to BinarySearchTree.insert since the tree was
                     \* last emptied (construction or generate_random_data)
    caller,          \* what the calling code holds: list, the sequence it built the
                     \* array from; shared, whether the array's data is still that
                     \* very list object; snap, the list get_access_history last
                     \* returned to it
    page,            \* interactive_search_page: the two selectbox values and whether
                     \* st.session_state holds a data_structure (the container)
    controller,      \* the SearchVisualizationController object
    tester           \* the PerformanceTester object, the PerformanceMetrics object
                     \* last handed to the calling code, and what the last call
                     \* returned

container == <<kind, data, size, tree, access_history>>
ui == <<page, controller, tester>>
vars == <<kind, data, size, tree, access_history, call, inserted, caller,
          page, controller, tester>>

\* the container object as the engines see it
DS == [kind |-> kind, data |-> data, size |-> size, tree |-> tree,
       access_history |-> access_history]

SetDS(ds) ==
    /\ kind' = ds.kind
    /\ data' = ds.data
    /\ size' = ds.size
    /\ tree' = ds.tree
    /\ access_history' = ds.access_history

NoSearch == [alg |-> "", target |-> None, result |-> NoResult]

Call(op, arg, exc) ==
    [op |-> op, arg |-> arg, lo |-> None, hi |-> None, name |-> "", ret |-> None,
     alg |-> "", target |-> None, exc |-> exc, result |-> NoResult, prev |-> NoSearch]

\* the calling code keeps no reference to the constructor's argument
NoCaller == [list |-> <<>>, shared |-> FALSE, snap |-> <<>>]

\* list methods that work in place (append, sort, item assignment) show
\* through every reference to the list object
InPlace(newdata) ==
    caller' = IF caller.shared THEN [caller EXCEPT !.list = newdata] ELSE caller

Range(s) == {s[i] : i \in 1..Len(s)}

\* the page as first drawn: the first option of each selectbox, nothing stored
NoPage == [ds_type |-> "array", algorithm |-> "linear", stored |-> FALSE]

\* SearchVisualizationController.__init__; ret is what the last call returned
\* before is current_step as it was when the last call began
NoController ==
    [search_result |-> NoResult, is_set |-> FALSE, current_step |-> 0, before |-> 0,
     ret |-> FALSE]

\* PerformanceMetrics.__init__; has_stats tells whether calculate_statistics
\* has created the derived attributes (avg_time, avg_comparisons, ...)
PerformanceMetrics_init ==
    [algorithm_name |-> "", data_structure_type |-> "", data_size |-> 0,
     search_times |-> <<>>, comparison_counts |-> <<>>, total_tests |-> 0,
     successful_searches |-> 0, has_stats |-> FALSE]

\* PerformanceTester.__init__: results is the dict as the sequence of its
\* items in insertion order; metrics is the PerformanceMetrics object the
\* calling code holds (held), ret the dict or table last returned, unready
\* whether the last call read a derived field of an object on which
\* calculate_statistics had created none
NoTester == [results |-> <<>>, metrics |-> PerformanceMetrics_init, held |-> FALSE,
             ret |-> <<>>, unready |-> FALSE]

Init ==
    \E k \in Kinds :
    \E d \in SeqsUpTo(IF k = "binary_search_tree" THEN Keys ELSE Values, MaxInit) :
        LET ds == create_data_structure(k, d).ds
        IN /\ kind = ds.kind
           /\ data = ds.data
           /\ size = ds.size
           /\ tree = ds.tree
           /\ access_history = ds.access_history
           /\ call = Call("init", None, "")
           /\ inserted = IF k = "binary_search_tree" THEN Range(d) ELSE {}
           /\ caller = NoCaller
           /\ page = NoPage /\ controller = NoController /\ tester = NoTester

\* arr.append(v) / linked_list.append(v)
DoAppend(v) ==
    /\ kind \in {"array", "linked_list"}
    /\ size < MaxLen /\ Len(data) < MaxLen
    /\ SetDS(IF kind = "array" THEN SearchableArray_append(DS, v)
             ELSE SearchableLinkedList_append(DS, v))
    /\ call' = Call("append", v, "")
    /\ InPlace(data')
    /\ UNCHANGED <<inserted, ui>>

\* bst.insert(v)
DoInsert(v) ==
    /\ kind = "binary_search_tree"
    /\ Len(tree.nodes) < MaxNodes \/ v \in {tree.nodes[n].val : n \in 1..Len(tree.nodes)}
    /\ SetDS(BinarySearchTree_insert(DS, v))
    /\ call' = Call("insert", v, "")
    /\ inserted' = inserted \cup {v}
    /\ UNCHANGED <<caller, ui>>

\* arr[i] = v
DoSetItem(i, v) ==
    /\ kind = "array"
    /\ i <= size
    /\ LET r == SearchableArray_setitem(DS, i, v)
       IN /\ SetDS(r.ds)
          /\ call' = Call("setitem", i, r.exc)
    /\ InPlace(data')
    /\ UNCHANGED <<inserted, ui>>

\* arr.sort()
DoSort ==
    /\ kind = "array"
    /\ SetDS(SearchableArray_sort(DS))
    /\ call' = Call("sort", None, "")
    /\ InPlace(data')
    /\ UNCHANGED <<inserted, ui>>

\* arr[i]
DoGetItem(i) ==
    /\ kind = "array"
    /\ i <= size
    /\ Len(access_history) < MaxHist
    /\ LET r == SearchableArray_getitem(DS, i)
       IN /\ SetDS(r.ds)
          /\ call' = [Call("getitem", i, r.exc) EXCEPT !.ret = r.ret]
    /\ UNCHANGED <<inserted, caller, ui>>

\* linked_list.get_value_at(i)
DoGetValueAt(i) ==
    /\ kind = "linked_list"
    /\ i <= size
    /\ Len(access_history) < MaxHist
    /\ LET r == SearchableLinkedList_get_value_at(DS, i)
       IN /\ SetDS(r.ds)
          /\ call' = [Call("get_value_at", i, "") EXCEPT !.ret = r.ret]
    /\ UNCHANGED <<inserted, caller, ui>>

\* container.clear_history()
DoClearHistory ==
    /\ access_history # <<>>
    /\ SetDS(clear_history(DS))
    /\ call' = Call("clear_history", None, "")
    /\ UNCHANGED <<inserted, caller, ui>>

\* SearchAlgorithmFactory.search(alg, container, target)
DoSearch(alg, target) ==
    /\ target \in Targets(kind)
    /\ LET r == SearchAlgorithmFactory_search(alg, DS, target)
       IN /\ SetDS(r.ds)
          /\ call' = [Call("search", None, r.exc) EXCEPT
                      !.alg = alg, !.target = target, !.result = r.result,
                      !.prev = IF call.op = "search" /\ call.exc = "" /\ call.alg = alg
                                  /\ call.target = target
                               THEN [alg |-> call.alg, target |-> call.target,
                                     result |-> call.result]
                               ELSE NoSearch]
          /\ UNCHANGED <<inserted, caller, ui>>

\* container.generate_random_data(n, min_val, max_val); the array gets a new
\* list object
DoPopulate(n, min_val, max_val) ==
    /\ min_val <= max_val
    /\ kind # "binary_search_tree" => max_val <= MaxVal
    /\ \E vals \in Draws(kind, n, min_val, max_val) :
          /\ SetDS(generate_random_data(DS, n, vals))
          /\ inserted' = IF kind = "binary_search_tree" THEN Range(vals) ELSE {}
    /\ call' = [Call("populate", n, "") EXCEPT !.lo = min_val, !.hi = max_val]
    /\ caller' = [caller EXCEPT !.shared = FALSE]
    /\ UNCHANGED ui

\* container = create_data_structure(ds_type, d): on failure the assignment
\* does not happen
DoCreate(ds_type, d) ==
    /\ Range(d) \subseteq (IF ds_type = "binary_search_tree" THEN Keys ELSE Values)
    /\ LET r == create_data_structure(ds_type, d)
       IN /\ IF r.exc = "" THEN SetDS(r.ds) ELSE UNCHANGED container
          /\ inserted' = IF r.exc # "" THEN inserted
                         ELSE IF ds_type = "binary_search_tree" THEN Range(d) ELSE {}
          /\ call' = [Call("create", None, r.exc) EXCEPT !.name = ds_type]
    /\ caller' = NoCaller
    /\ UNCHANGED ui

\* snap = container.get_access_history()
DoGetAccessHistory ==
    /\ caller.snap # get_access_history(DS)
    /\ caller' = [caller EXCEPT !.snap = get_access_history(DS)]
    /\ call' = Call("get_access_history", None, "")
    /\ UNCHANGED <<container, inserted, ui>>

\* the calling code appends to the list it built the array from
CallerAppend(v) ==
    /\ Len(caller.list) <= MaxInit
    /\ caller' = [caller EXCEPT !.list = Append(@, v)]
    /\ data' = IF caller.shared THEN caller'.list ELSE data
    /\ call' = Call("caller_append", v, "")
    /\ UNCHANGED <<kind, size, tree, access_history, inserted, ui>>

\* the calling code removes the last element of that list
CallerPop ==
    /\ caller.list # <<>>
    /\ caller' = [caller EXCEPT !.list = SubSeq(@, 1, Len(@) - 1)]
    /\ data' = IF caller.shared THEN caller'.list ELSE data
    /\ call' = Call("caller_pop", None, "")
    /\ UNCHANGED <<kind, size, tree, access_history, inserted, ui>>

Next ==
    \/ \E v \in Values : DoAppend(v)
    \/ \E v \in Keys : DoInsert(v)
    \/ \E i \in -1..MaxLen, v \in Values : DoSetItem(i, v)
    \/ DoSort
    \/ \E alg \in AlgorithmNames, t \in AllTargets : DoSearch(alg, t)

Spec == Init /\ [][Next]_vars

\* the caller's own positional reads and writes and the operations that
\* reset the log
NextAccess ==
    \/ \E v \in Values : DoAppend(v)
    \/ \E i \in -1..MaxLen, v \in Values : DoSetItem(i, v)
    \/ \E i \in -1..MaxLen : DoGetItem(i)
    \/ \E i \in -1..MaxLen : DoGetValueAt(i)
    \/ DoClearHistory
    \/ \E n \in 0..MaxPop, lo, hi \in Keys : DoPopulate(n, lo, hi)
    \/ \E alg \in AlgorithmNames, t \in AllTargets : DoSearch(alg, t)

SpecAccess == Init /\ [][NextAccess]_vars

\* the operations that write the access history: positional reads, searches,
\* clear_history and generate_random_data
NextLog ==
    \/ \E i \in -1..MaxLen : DoGetItem(i)
    \/ \E i \in -1..MaxLen : DoGetValueAt(i)
    \/ DoClearHistory
    \/ \E n \in 0..MaxPop, lo, hi \in Keys : DoPopulate(n, lo, hi)
    \/ \E alg \in AlgorithmNames, t \in AllTargets : DoSearch(alg, t)

SpecLog == Init /\ [][NextLog]_vars

\* growing and searching a container
NextSearch ==
    \/ \E v \in Values : DoAppend(v)
    \/ \E v \in Keys : DoInsert(v)
    \/ \E alg \in AlgorithmNames, t \in AllTargets : DoSearch(alg, t)

SpecSearch == Init /\ [][NextSearch]_vars

\* growing, refilling and searching a container
NextPopulate ==
    \/ \E v \in Values : DoAppend(v)
    \/ \E v \in Keys : DoInsert(v)
    \/ \E n \in 0..MaxPop, lo, hi \in Keys : DoPopulate(n, lo, hi)
    \/ \E alg \in AlgorithmNames, t \in AllTargets : DoSearch(alg, t)

SpecPopulate == Init /\ [][NextPopulate]_vars

\* the factory functions called with names inside and outside their tables
NextFactory ==
    \/ \E k \in Kinds \cup UnknownKinds, d \in SeqsUpTo(Values, MaxInit) : DoCreate(k, d)
    \/ \E alg \in AlgorithmNames \cup UnknownAlgorithms, t \in AllTargets : DoSearch(alg, t)

SpecFactory == Init /\ [][NextFactory]_vars

\* an array built from a list the calling code keeps and goes on using
InitOwn ==
    \E d \in SeqsUpTo(Values, MaxInit) :
        LET ds == SearchableArray_init(d)
        IN /\ kind = ds.kind
           /\ data = ds.data
           /\ size = ds.size
           /\ tree = ds.tree
           /\ access_history = ds.access_history
           /\ call = Call("init", None, "")
           /\ inserted = {}
           /\ caller = [list |-> d, shared |-> TRUE, snap |-> <<>>]
           /\ page = NoPage /\ controller = NoController /\ tester = NoTester

\* the array's own operations, writing the first two positions and reading
\* the first, and the calling code's changes of its list
NextOwn ==
    \/ \E v \in Values : DoAppend(v)
    \/ \E i \in 0..1, v \in Values : DoSetItem(i, v)
    \/ DoSort
    \/ \E n \in 0..MaxPop, lo, hi \in Values : DoPopulate(n, lo, hi)
    \/ \E i \in {0} : DoGetItem(i)
    \/ DoClearHistory
    \/ DoGetAccessHistory
    \/ \E v \in Values : CallerAppend(v)
    \/ CallerPop

SpecOwn == InitOwn /\ [][NextOwn]_vars

\* ---- interactive_search_page ---------------------------------------------------
\* the page before any button was pressed: no data_structure in the session
InitPage ==
    /\ kind = NoContainer.kind /\ data = <<>> /\ size = 0 /\ tree = EmptyTree
    /\ access_history = <<>>
    /\ call = Call("init", None, "")
    /\ inserted = {}
    /\ caller = NoCaller
    /\ page = NoPage /\ controller = NoController /\ tester = NoTester

\* the user picks another container kind; the algorithm selectbox is drawn
\* with the new option list
PageChooseKind(k) ==
    /\ k # page.ds_type
    /\ page' = [page EXCEPT !.ds_type = k, !.algorithm = FirstOption(k)]
    /\ call' = [Call("choose_kind", None, "") EXCEPT !.name = k]
    /\ UNCHANGED <<container, inserted, caller, controller, tester>>

\* the user picks another of the algorithms offered for the selected kind
PageChooseAlgorithm(a) ==
    /\ a \in get_compatible_algorithms(page.ds_type)
    /\ a # page.algorithm
    /\ page' = [page EXCEPT !.algorithm = a]
    /\ call' = [Call("choose_algorithm", None, "") EXCEPT !.name = a]
    /\ UNCHANGED <<container, inserted, caller, controller, tester>>

\* button "generate random data"
PageGenerate(n, min_val, max_val) ==
    /\ min_val <= max_val
    /\ page.ds_type # "binary_search_tree" => max_val <= MaxVal
    /\ \E vals \in Draws(page.ds_type, n, min_val, max_val) :
          LET made == create_data_structure(page.ds_type, <<>>).ds
              filled == generate_random_data(made, n, vals)
          IN /\ SetDS(SortForBinary(page.algorithm, filled))
             /\ inserted' = IF page.ds_type = "binary_search_tree" THEN Range(vals) ELSE {}
    /\ page' = [page EXCEPT !.stored = TRUE]
    /\ call' = [Call("page_generate", n, "") EXCEPT !.lo = min_val, !.hi = max_val]
    /\ caller' = NoCaller
    /\ UNCHANGED <<controller, tester>>

\* button "create data structure" with the numbers typed in
PageCreate(d) ==
    /\ Range(d) \subseteq (IF page.ds_type = "binary_search_tree" THEN Keys ELSE Values)
    /\ SetDS(SortForBinary(page.algorithm, create_data_structure(page.ds_type, d).ds))
    /\ inserted' = IF page.ds_type = "binary_search_tree" THEN Range(d) ELSE {}
    /\ page' = [page EXCEPT !.stored = TRUE]
    /\ call' = [Call("page_create", None, "") EXCEPT !.name = page.ds_type]
    /\ caller' = NoCaller
    /\ UNCHANGED <<controller, tester>>

\* button "start search": the selected algorithm runs on the stored
\* container; on success a new controller is set up with the result, an
\* exception is caught and shown
PageStartSearch(target) ==
    /\ page.stored
    /\ target \in Targets(kind)
    /\ LET r == SearchAlgorithmFactory_search(page.algorithm, DS, target)
       IN /\ SetDS(r.ds)
          /\ call' = [Call("search", None, r.exc) EXCEPT
                      !.alg = page.algorithm, !.target = target, !.result = r.result]
          /\ controller' = IF r.exc = ""
                           THEN SearchVisualizationController_setup_search(NoController, r.result)
                           ELSE controller
    /\ UNCHANGED <<inserted, caller, page, tester>>

NextPage ==
    \/ \E k \in Kinds : PageChooseKind(k)
    \/ \E a \in AlgorithmNames : PageChooseAlgorithm(a)
    \/ \E n \in 0..MaxPop, lo, hi \in Keys : PageGenerate(n, lo, hi)
    \/ \E d \in SeqsUpTo(Keys, MaxInit) : PageCreate(d)
    \/ \E t \in AllTargets : PageStartSearch(t)

SpecPage == InitPage /\ [][NextPage]_vars

\* ---- replaying a result -----------------------------------------------------
\* controller.setup_search(container, target, result) with the result of the
\* search that just returned
CtrlSetupSearch ==
    /\ call.op = "search" /\ call.exc = ""
    /\ controller' = SearchVisualizationController_setup_search(controller, call.result)
    /\ call' = Call("setup_search", None, "")
    /\ UNCHANGED <<container, inserted, caller, page, tester>>

\* controller.setup_search(container, target, SearchResult(found))
CtrlSetupResult(found) ==
    /\ controller' = SearchVisualizationController_setup_search(controller,
                                                                SearchResult_init(found))
    /\ call' = Call("setup_search", None, "")
    /\ UNCHANGED <<container, inserted, caller, page, tester>>

\* the three buttons, shown once a controller has been set up
CtrlNext ==
    /\ controller.is_set
    /\ controller' = SearchVisualizationController_next_step(controller)
    /\ call' = Call("next_step", None, "")
    /\ UNCHANGED <<container, inserted, caller, page, tester>>

CtrlPrevious ==
    /\ controller.is_set
    /\ controller' = SearchVisualizationController_previous_step(controller)
    /\ call' = Call("previous_step", None, "")
    /\ UNCHANGED <<container, inserted, caller, page, tester>>

CtrlReset ==
    /\ controller.is_set
    /\ controller' = SearchVisualizationController_reset(controller)
    /\ call' = Call("reset", None, "")
    /\ UNCHANGED <<container, inserted, caller, page, tester>>

NextReplay ==
    \/ \E alg \in AlgorithmNames, t \in Values : DoSearch(alg, t)
    \/ CtrlSetupSearch
    \/ \E f \in BOOLEAN : CtrlSetupResult(f)
    \/ CtrlNext
    \/ CtrlPrevious
    \/ CtrlReset

SpecReplay == Init /\ [][NextReplay]_vars

\* ---- statistics layer (performance_testing.py) --------------------------------
\* A string is the sequence of its pieces, the underscore being a piece of
\* its own: "linked_list" is <<"linked", "_", "list">>.
Str(name) ==
    IF name = "linked_list" THEN <<"linked", "_", "list">>
    ELSE IF name = "binary_search_tree" THEN <<"binary", "_", "search", "_", "tree">>
    ELSE <<name>>

\* f"{algorithm}_{ds_type}_{size}"
FormatKey(algorithm, ds_type, data_size) ==
    Str(algorithm) \o <<"_">> \o Str(ds_type) \o <<"_">> \o <<ToString(data_size)>>

\* str.split('_'): the parts between the underscores
RECURSIVE Split(_)
Split(str) ==
    IF \A i \in 1..Len(str) : str[i] # "_" THEN <<str>>
    ELSE LET i == CHOOSE j \in 1..Len(str) : str[j] = "_" /\ \A m \in 1..(j - 1) : str[m] # "_"
         IN <<SubSeq(str, 1, i - 1)>> \o Split(SubSeq(str, i + 1, Len(str)))

\* "algorithm, ds_type, size = key.split('_')": unpacking needs exactly three
\* parts; group_key is f"{ds_type}_{size}"
ParseKey(key) ==
    LET parts == Split(key)
    IN IF Len(parts) # 3
       THEN [exc |-> "ValueError", algorithm |-> <<>>, group_key |-> <<>>]
       ELSE [exc |-> "", algorithm |-> parts[1],
             group_key |-> parts[2] \o <<"_">> \o parts[3]]

PerformanceMetrics_add_result(m, result, time_taken) ==
    [m EXCEPT !.search_times = Append(@, time_taken),
              !.comparison_counts = Append(@, result.comparisons),
              !.total_tests = @ + 1,
              !.successful_searches = IF result.found THEN @ + 1 ELSE @]

\* with no recorded result calculate_statistics returns before it creates
\* any attribute
PerformanceMetrics_calculate_statistics(m) ==
    IF m.search_times = <<>> THEN m ELSE [m EXCEPT !.has_stats = TRUE]

\* to_dict reads avg_time and the other derived attributes right after
\* calculate_statistics: AttributeError when they were never created
PerformanceMetrics_to_dict(m) ==
    LET m1 == PerformanceMetrics_calculate_statistics(m)
    IN [m |-> m1, exc |-> IF m1.has_stats THEN "" ELSE "AttributeError"]

\* what add_result reads of a search: whether it raised, found, comparisons
Observed(r) ==
    [exc |-> r.exc, found |-> r.result.found, comparisons |-> r.result.comparisons]

\* what one pass of the loop of single_algorithm_test can observe: the
\* container is created, filled with n random values, sorted for binary, and
\* searched for a value it holds or for one above all values; default value
\* range and absent targets are scaled to the model's value range
TestOutcomes(algorithm, ds_type, n) ==
    LET hi == IF ds_type = "binary_search_tree" THEN MaxKey ELSE MaxVal
    IN UNION {
         LET made == create_data_structure(ds_type, <<>>).ds
             filled == SortForBinary(algorithm, generate_random_data(made, n, vals))
         IN {Observed(SearchAlgorithmFactory_search(algorithm, filled, t))
             : t \in Range(vals) \cup {hi + 1}}
         : vals \in Draws(ds_type, n, 1, hi)}

\* the metrics objects single_algorithm_test can return after test_count
\* passes; a pass whose search raises records nothing
RECURSIVE SingleTestRuns(_, _, _, _, _)
SingleTestRuns(algorithm, ds_type, n, test_count, m) ==
    IF test_count = 0 THEN {m}
    ELSE UNION {SingleTestRuns(algorithm, ds_type, n, test_count - 1,
                               IF r.exc # "" THEN m
                               ELSE PerformanceMetrics_add_result(m, r, time_taken))
                : r \in TestOutcomes(algorithm, ds_type, n), time_taken \in 1..MaxTime}

PerformanceTester_single_algorithm_test(algorithm, ds_type, n, test_count) ==
    SingleTestRuns(algorithm, ds_type, n, test_count,
                   [PerformanceMetrics_init EXCEPT !.algorithm_name = algorithm,
                                                   !.data_structure_type = ds_type,
                                                   !.data_size = n])

\* single_algorithm_test over the arguments the calls below pass, tabulated
SingleTestTable ==
    [algorithm \in AlgorithmNames, ds_type \in Kinds, n \in 1..MaxPop,
     test_count \in 0..MaxTests |->
        PerformanceTester_single_algorithm_test(algorithm, ds_type, n, test_count)]

\* the compatible (algorithm, ds_type, size) triples in the order of the
\* three nested loops of batch_test
BatchEntries(algorithms, data_structure_types, data_sizes) ==
    LET Ld == Len(data_structure_types)
        Ls == Len(data_sizes)
        all == [i \in 1..(Len(algorithms) * Ld * Ls) |->
                  [algorithm |-> algorithms[((i - 1) \div (Ld * Ls)) + 1],
                   ds_type |-> data_structure_types[(((i - 1) \div Ls) % Ld) + 1],
                   data_size |-> data_sizes[((i - 1) % Ls) + 1]]]
        Compatible(e) == PerformanceTester_is_compatible(e.algorithm, e.ds_type)
    IN SelectSeq(all, Compatible)

\* results[key] = metrics
DictSet(results, key, metrics) ==
    IF \E i \in 1..Len(results) : results[i].key = key
    THEN [i \in 1..Len(results) |->
            IF results[i].key = key THEN [key |-> key, metrics |-> metrics]
            ELSE results[i]]
    ELSE Append(results, [key |-> key, metrics |-> metrics])

RECURSIVE BatchRuns(_, _, _)
BatchRuns(todo, test_count, results) ==
    IF todo = <<>> THEN {results}
    ELSE LET e == Head(todo)
         IN UNION {BatchRuns(Tail(todo), test_count,
                             DictSet(results,
                                     FormatKey(e.algorithm, e.ds_type, e.data_size), m))
                   : m \in SingleTestTable[e.algorithm, e.ds_type, e.data_size,
                                           test_count]}

\* the dicts batch_test can store in self.results and return
PerformanceTester_batch_test(algorithms, data_structure_types, data_sizes, test_count) ==
    BatchRuns(BatchEntries(algorithms, data_structure_types, data_sizes),
              test_count, <<>>)

\* generate_comparison_report: to_dict on every stored object in turn; the
\* first one that raises ends the call, the earlier ones keep their statistics
RECURSIVE ReportRun(_, _)
ReportRun(results, i) ==
    IF i > Len(results) THEN [results |-> results, exc |-> ""]
    ELSE LET r == PerformanceMetrics_to_dict(results[i].metrics)
         IN IF r.exc # "" THEN [results |-> results, exc |-> r.exc]
            ELSE ReportRun([results EXCEPT ![i].metrics = r.m], i + 1)

PerformanceTester_generate_comparison_report(results) ==
    LET r == ReportRun(results, 1)
    IN [results |-> r.results, exc |-> r.exc,
        ret |-> IF r.exc = "" THEN [i \in 1..Len(results) |-> results[i].key] ELSE <<>>,
        unready |-> r.exc = "AttributeError"]

RECURSIVE Sum(_)
Sum(seq) == IF seq = <<>> THEN 0 ELSE Head(seq) + Sum(Tail(seq))

\* the value min / max compares, as a fraction <<numerator, denominator>>:
\* statistics.mean of the recorded list, or success_rate, which __init__
\* creates as 0.0 and calculate_statistics overwrites
MetricValue(m, metric) ==
    IF metric = "avg_time" THEN <<Sum(m.search_times), Len(m.search_times)>>
    ELSE IF metric = "avg_comparisons"
    THEN <<Sum(m.comparison_counts), Len(m.comparison_counts)>>
    ELSE IF m.has_stats THEN <<m.successful_searches, m.total_tests>>
    ELSE <<0, 1>>

Less(x, y) == x[1] * y[2] < y[1] * x[2]

\* the group keys in the order the first loop creates them
RECURSIVE GroupKeys(_, _)
GroupKeys(results, seen) ==
    IF results = <<>> THEN seen
    ELSE LET g == ParseKey(Head(results).key).group_key
         IN GroupKeys(Tail(results),
                      IF \E i \in 1..Len(seen) : seen[i] = g THEN seen
                      ELSE Append(seen, g))

\* the second loop of get_best_algorithm_by_metric; min and max return the
\* first of the best members
RECURSIVE BestRun(_, _, _, _, _)
BestRun(results, groups, metric, best_results, unready) ==
    IF groups = <<>>
    THEN [results |-> results, exc |-> "", ret |-> best_results, unready |-> unready]
    ELSE IF metric \notin {"avg_time", "avg_comparisons", "success_rate"}
    THEN BestRun(results, Tail(groups), metric, best_results, unready)
    ELSE
      LET members == {i \in 1..Len(results) :
                        ParseKey(results[i].key).group_key = Head(groups)}
          early == \E i \in members : ~results[i].metrics.has_stats
          Val(i) == MetricValue(results[i].metrics, metric)
          Better(i, j) == IF metric = "success_rate" THEN Less(Val(j), Val(i))
                          ELSE Less(Val(i), Val(j))
          best == CHOOSE i \in members :
                     /\ \A j \in members : ~Better(j, i)
                     /\ \A j \in members : j < i => Better(i, j)
          r == PerformanceMetrics_to_dict(results[best].metrics)
      IN IF metric # "success_rate" /\ early
         THEN [results |-> results, exc |-> "AttributeError", ret |-> <<>>,
               unready |-> TRUE]
         ELSE IF r.exc # ""
         THEN [results |-> results, exc |-> r.exc, ret |-> <<>>, unready |-> TRUE]
         ELSE BestRun([results EXCEPT ![best].metrics = r.m], Tail(groups), metric,
                      Append(best_results,
                             [group_key |-> Head(groups),
                              algorithm |-> ParseKey(results[best].key).algorithm]),
                      unready \/ early)

PerformanceTester_get_best_algorithm_by_metric(results, metric) ==
    IF results = <<>>
    THEN [results |-> results, exc |-> "", ret |-> <<>>, unready |-> FALSE]
    ELSE IF \E i \in 1..Len(results) : ParseKey(results[i].key).exc # ""
    THEN [results |-> results, exc |-> "ValueError", ret |-> <<>>, unready |-> FALSE]
    ELSE BestRun(results, GroupKeys(results, <<>>), metric, <<>>, FALSE)

\* complexity_analysis reads avg_time, avg_comparisons and max_comparisons
\* of the object single_algorithm_test returned for the first size, on which
\* nothing has called calculate_statistics
PerformanceTester_complexity_analysis(algorithm, data_structure_type, size_range, test_count) ==
    IF size_range = <<>>
    THEN {[exc |-> "", unready |-> FALSE]}
    ELSE {[exc |-> IF m.has_stats THEN "" ELSE "AttributeError",
           unready |-> ~m.has_stats]
          : m \in PerformanceTester_single_algorithm_test(
                      algorithm, data_structure_type, Head(size_range), test_count)}

\* ---- calls on the statistics layer ----------------------------------------------
TesterCall(op, name, exc) == [Call(op, None, exc) EXCEPT !.name = name]

\* the listed options in the order performance_testing_page offers them
AlgorithmOptions == <<"linear", "binary", "bst">>
StructureOptions == <<"array", "linked_list", "binary_search_tree">>
Metrics == {"avg_time", "avg_comparisons", "success_rate", "median_time"}

\* the options the user ticked, in the listed order
Ticked(options, chosen) == LET In(x) == x \in chosen IN SelectSeq(options, In)

\* metrics = tester.single_algorithm_test(...): the calling code keeps the object
TesterSingleTest(algorithm, ds_type, n, test_count) ==
    /\ \E m \in PerformanceTester_single_algorithm_test(algorithm, ds_type, n, test_count) :
          tester' = [tester EXCEPT !.metrics = m, !.held = TRUE, !.unready = FALSE]
    /\ call' = TesterCall("single_algorithm_test", algorithm, "")
    /\ UNCHANGED <<container, inserted, caller, page, controller>>

\* metrics.calculate_statistics()
MetricsCalculate ==
    /\ tester.held
    /\ tester' = [tester EXCEPT
                    !.metrics = PerformanceMetrics_calculate_statistics(@),
                    !.unready = FALSE]
    /\ call' = TesterCall("calculate_statistics", "", "")
    /\ UNCHANGED <<container, inserted, caller, page, controller>>

\* metrics.to_dict()
MetricsToDict ==
    /\ tester.held
    /\ LET r == PerformanceMetrics_to_dict(tester.metrics)
       IN /\ tester' = [tester EXCEPT !.metrics = r.m,
                                      !.unready = r.exc = "AttributeError"]
          /\ call' = TesterCall("to_dict", "", r.exc)
    /\ UNCHANGED <<container, inserted, caller, page, controller>>

TesterBatchTest(algorithms, data_structure_types, n, test_count) ==
    /\ \E results \in PerformanceTester_batch_test(
                          Ticked(AlgorithmOptions, algorithms),
                          Ticked(StructureOptions, data_structure_types),
                          <<n>>, test_count) :
          tester' = [tester EXCEPT !.results = results, !.ret = results,
                                   !.unready = FALSE]
    /\ call' = TesterCall("batch_test", "", "")
    /\ UNCHANGED <<container, inserted, caller, page, controller>>

TesterReport ==
    /\ LET r == PerformanceTester_generate_comparison_report(tester.results)
       IN /\ tester' = [tester EXCEPT !.results = r.results, !.ret = r.ret,
                                      !.unready = r.unready]
          /\ call' = TesterCall("generate_comparison_report", "", r.exc)
    /\ UNCHANGED <<container, inserted, caller, page, controller>>

TesterGetBest(metric) ==
    /\ LET r == PerformanceTester_get_best_algorithm_by_metric(tester.results, metric)
       IN /\ tester' = [tester EXCEPT !.results = r.results, !.ret = r.ret,
                                      !.unready = r.unready]
          /\ call' = TesterCall("get_best_algorithm_by_metric", metric, r.exc)
    /\ UNCHANGED <<container, inserted, caller, page, controller>>

TesterComplexity(algorithm, ds_type, n, test_count) ==
    /\ \E r \in PerformanceTester_complexity_analysis(algorithm, ds_type, <<n>>, test_count) :
          /\ tester' = [tester EXCEPT !.ret = <<>>, !.unready = r.unready]
          /\ call' = TesterCall("complexity_analysis", algorithm, r.exc)
    /\ UNCHANGED <<container, inserted, caller, page, controller>>

\* one metrics object in the hands of the calling code, and the complexity page
NextStats ==
    \/ \E a \in AlgorithmNames, k \in Kinds, n \in 1..MaxPop, c \in 0..MaxTests :
          TesterSingleTest(a, k, n, c)
    \/ MetricsCalculate
    \/ MetricsToDict
    \/ \E a \in AlgorithmNames, k \in Kinds, n \in 1..MaxPop, c \in 0..MaxTests :
          TesterComplexity(a, k, n, c)

SpecStats == InitPage /\ [][NextStats]_vars

\* the performance page: batch, report, best algorithm per group
NextBatch ==
    \/ \E as \in SUBSET AlgorithmNames, ks \in SUBSET Kinds, n \in 1..MaxPop,
          c \in 0..MaxTests : TesterBatchTest(as, ks, n, c)
    \/ TesterReport
    \/ \E metric \in Metrics : TesterGetBest(metric)

SpecBatch == InitPage /\ [][NextBatch]_vars

TypeOK ==
    /\ kind \in Kinds \cup {NoContainer.kind}
    /\ size \in 0..MaxLen
    /\ Len(tree.nodes) <= MaxNodes
    /\ call.op \in {"init", "append", "insert", "setitem", "sort", "getitem",
                    "get_value_at", "clear_history", "search", "populate", "create",
                    "get_access_history", "caller_append", "caller_pop",
                    "choose_kind", "choose_algorithm", "page_generate", "page_create",
                    "setup_search", "next_step", "previous_step", "reset",
                    "single_algorithm_test", "calculate_statistics", "to_dict",
                    "batch_test", "generate_comparison_report",
                    "get_best_algorithm_by_metric", "complexity_analysis"}

\* ---- properties ------------------------------------------------------------
IsSorted(s) == \A i \in 1..(Len(s) - 1) : s[i] <= s[i + 1]

RECURSIVE Pow2(_)
Pow2(k) == IF k = 0 THEN 1 ELSE 2 * Pow2(k - 1)

\* ceil(log2(n)) for n >= 1
CeilLog2(n) == CHOOSE k \in 0..n : Pow2(k) >= n /\ \A j \in 0..(k - 1) : Pow2(j) < n

CompareSteps(steps) == SelectSeq(steps, LAMBDA st : st.action = "compare")

\* the call that produced the current state was a search by engine alg
Searched(alg) == call.op = "search" /\ call.alg = alg

\* smallest 0-based position of v in s
FirstPos(s, v) == CHOOSE i \in 0..(Len(s) - 1) : s[i + 1] = v /\ \A j \in 0..(i - 1) : s[j + 1] # v

\* C1: binary search on a non-empty array sorted ascending (duplicates
\* allowed), for a target that occurs in it, returns found = true with an
\* index i such that data[i] = target, using at most ceil(log2(size)) + 1
\* comparisons.
C1_BinarySearchFound ==
    (Searched("binary") /\ kind = "array" /\ data # <<>> /\ IsSorted(data)
        /\ call.target \in Range(data))
    => /\ call.exc = ""
       /\ call.result.found
       /\ call.result.index \in 0..(Len(data) - 1)
       /\ data[call.result.index + 1] = call.target
       /\ call.result.comparisons <= CeilLog2(size) + 1

C1_Witness ==
    /\ Searched("binary") /\ kind = "array" /\ IsSorted(data)
    /\ Len(data) >= 4
    /\ Cardinality(Range(data)) < Len(data)
    /\ call.target \in Range(data)
    /\ call.result.found
    /\ call.result.comparisons = 3

\* C2: linear search on an array or linked list, for a target that occurs in
\* it, returns found = true with the smallest position i holding the target,
\* comparisons = i + 1, and a trace of exactly i + 1 compare steps with
\* indices 0, 1, ..., i in order and nothing after the matching step.
C2_LinearSearchFound ==
    (Searched("linear") /\ kind \in {"array", "linked_list"} /\ call.target \in Range(data))
    => LET i == FirstPos(data, call.target)
           steps == call.result.steps
       IN /\ call.exc = ""
          /\ call.result.found
          /\ call.result.index = i
          /\ call.result.comparisons = i + 1
          /\ Len(steps) = i + 1
          /\ \A k \in 1..Len(steps) :
                /\ steps[k].action = "compare"
                /\ steps[k].index = k - 1
                /\ steps[k].value = data[k]

C2_Witness ==
    /\ Searched("linear") /\ kind = "linked_list"
    /\ call.result.found
    /\ call.result.index = 1
    /\ Len(data) >= 3
    /\ data[3] = call.target
    /\ Len(call.result.steps) = 2

\* C3: linear search on an array or linked list (the empty one included), for
\* a target that does not occur in it, returns found = false with no position
\* and a comparison count equal to the container size.
C3_LinearSearchNotFound ==
    (Searched("linear") /\ kind \in {"array", "linked_list"} /\ call.target \notin Range(data))
    => /\ call.exc = ""
       /\ ~call.result.found
       /\ call.result.index = None
       /\ call.result.comparisons = size
       /\ size = Len(data)

C3_Witness ==
    /\ Searched("linear") /\ kind = "array"
    /\ Len(data) >= 3
    /\ call.target \notin Range(data)
    /\ ~call.result.found
    /\ call.result.comparisons = Len(data)

\* the values met going down from node: left when target < value, right when
\* target > value, stopping at a match or at an absent child
RECURSIVE DescentPath(_, _, _)
DescentPath(t, node, target) ==
    IF node = 0 THEN <<>>
    ELSE LET n == t.nodes[node]
         IN <<n.val>> \o (IF target < n.val THEN DescentPath(t, n.left, target)
                          ELSE IF target > n.val THEN DescentPath(t, n.right, target)
                          ELSE <<>>)

StepValues(steps) == [k \in 1..Len(steps) |-> steps[k].value]

\* C4: on a tree built by any insertions, BST search returns found = true iff
\* the target is one of the inserted values; the visited values (the returned
\* path, and the values of the compare steps) are exactly the values on the
\* root-to-node descent path, and when found the last visited value is the
\* target.
C4_BSTSearchPath ==
    (Searched("bst") /\ kind = "binary_search_tree")
    => LET path == DescentPath(tree, tree.root, call.target)
           visited == StepValues(CompareSteps(call.result.steps))
       IN /\ call.exc = ""
          /\ call.result.found <=> (call.target \in inserted)
          /\ access_history = path
          /\ visited = path
          /\ call.result.found => (path # <<>> /\ path[Len(path)] = call.target)

C4_Witness ==
    /\ Searched("bst") /\ kind = "binary_search_tree"
    /\ call.result.found
    /\ Len(access_history) >= 2
    /\ Len(tree.nodes) >= 3
    /\ tree.nodes[tree.root].left # 0 /\ tree.nodes[tree.root].right # 0
    /\ call.target < tree.nodes[tree.root].val

\* C5: binary search on an array sorted ascending, for a target that does not
\* occur in it, returns found = false with no position; its last step is a
\* not_found step and the comparison count is at most the array size.
C5_BinarySearchNotFound ==
    (Searched("binary") /\ kind = "array" /\ IsSorted(data) /\ call.target \notin Range(data))
    => LET steps == call.result.steps
       IN /\ call.exc = ""
          /\ ~call.result.found
          /\ call.result.index = None
          /\ steps # <<>>
          /\ steps[Len(steps)].action = "not_found"
          /\ call.result.comparisons <= size

C5_Witness ==
    /\ Searched("binary") /\ kind = "array" /\ IsSorted(data)
    /\ Len(data) >= 3
    /\ call.target \notin Range(data)
    /\ call.target > data[Len(data)]
    /\ ~call.result.found
    /\ call.result.comparisons >= 2

RECURSIVE SubtreeVals(_, _)
SubtreeVals(t, node) ==
    IF node = 0 THEN {}
    ELSE {t.nodes[node].val} \cup SubtreeVals(t, t.nodes[node].left)
                             \cup SubtreeVals(t, t.nodes[node].right)

StrictlyAscending(s) == \A i \in 1..(Len(s) - 1) : s[i] < s[i + 1]

\* C6: after construction from any sequence and any further inserts
\* (repeated values included), every node has all left-subtree values below
\* its value and all right-subtree values above it, and in-order traversal
\* is strictly ascending and holds exactly the distinct values inserted.
C6_BSTOrdered ==
    (kind = "binary_search_tree")
    => /\ \A n \in 1..Len(tree.nodes) :
            /\ \A v \in SubtreeVals(tree, tree.nodes[n].left) : v < tree.nodes[n].val
            /\ \A v \in SubtreeVals(tree, tree.nodes[n].right) : v > tree.nodes[n].val
       /\ StrictlyAscending(inorder_traversal(DS))
       /\ Range(inorder_traversal(DS)) = inserted
       /\ Len(inorder_traversal(DS)) = Cardinality(inserted)

C6_Witness ==
    /\ kind = "binary_search_tree"
    /\ call.op = "insert"
    /\ Len(tree.nodes) >= 3
    /\ tree.nodes[Len(tree.nodes)].val # call.arg
    /\ call.arg \in inserted

\* the compatibility table of the dispatcher's contract
InTable(alg, k) ==
    \/ alg = "linear" /\ k \in {"array", "linked_list"}
    \/ alg = "binary" /\ k = "array"
    \/ alg = "bst" /\ k = "binary_search_tree"

\* C7: SearchAlgorithmFactory.search fails exactly when the (algorithm,
\* container kind) pair is outside the table; a failing call produces no
\* result and no step, and leaves the contents and the access-history log as
\* they were; get_compatible_algorithms and _is_compatible admit exactly the
\* pairs the engines' type guards admit.
C7_CompatibilityError ==
    [][(call'.op = "search")
        => /\ (call'.exc # "") <=> ~InTable(call'.alg, kind)
           /\ (call'.exc # "") => (call'.exc = "ValueError" /\ call'.result = NoResult
                                    /\ UNCHANGED container)
           /\ (call'.exc = "") <=> (call'.alg \in get_compatible_algorithms(kind))
           /\ (call'.exc = "") <=> PerformanceTester_is_compatible(call'.alg, kind)]_vars

C7_Witness ==
    /\ call.op = "search"
    /\ call.exc = "ValueError"
    /\ kind = "binary_search_tree"
    /\ call.alg = "linear"
    /\ access_history # <<>>
    /\ Len(tree.nodes) >= 2

\* C8: a search that directly follows a search by the same engine with the
\* same target on the same container (whose log the first run left behind)
\* returns the same found flag, position and comparison count, and the same
\* steps field by field.
C8_Deterministic ==
    (call.op = "search" /\ call.exc = "" /\ call.prev # NoSearch)
    => /\ call.result.found = call.prev.result.found
       /\ call.result.index = call.prev.result.index
       /\ call.result.comparisons = call.prev.result.comparisons
       /\ Len(call.result.steps) = Len(call.prev.result.steps)
       /\ \A k \in 1..Len(call.result.steps) :
            call.result.steps[k] = call.prev.result.steps[k]

C8_Witness ==
    /\ call.op = "search" /\ call.exc = "" /\ call.prev # NoSearch
    /\ call.alg = "bst"
    /\ Len(call.prev.result.steps) >= 2
    /\ call.result.found

\* C9: in every search result the comparison count equals the number of
\* compare steps; for BST search it is also the length of the visited path.
C9_ComparisonsCountCompareSteps ==
    (call.op = "search" /\ call.exc = "")
    => /\ call.result.comparisons = Len(CompareSteps(call.result.steps))
       /\ call.alg = "bst" => call.result.comparisons = Len(access_history)

C9_Witness ==
    /\ Searched("bst") /\ call.exc = ""
    /\ ~call.result.found
    /\ call.result.comparisons >= 2
    /\ Len(call.result.steps) = call.result.comparisons + 1

C11_BinarySearchPairing ==
    (Searched("binary") /\ kind = "array")
    => LET steps == call.result.steps
           n == Len(steps)
           m == IF call.result.found THEN n ELSE n - 1
           ncmp == Len(CompareSteps(steps))
           nmove == Len(SelectSeq(steps, LAMBDA st : st.action = "move"))
       IN /\ call.exc = ""
          /\ n >= 1
          /\ \A k \in 1..m : steps[k].action = (IF k % 2 = 1 THEN "compare" ELSE "move")
          /\ \A k \in 1..m : (steps[k].action = "compare" /\ steps[k].found) => k = n
          /\ call.result.found
                => /\ m % 2 = 1
                   /\ steps[n].action = "compare" /\ steps[n].found
                   /\ nmove = ncmp - 1
          /\ ~call.result.found
                => /\ m % 2 = 0
                   /\ steps[n].action = "not_found"
                   /\ nmove = ncmp

C11_Witness ==
    /\ Searched("binary") /\ kind = "array" /\ call.exc = ""
    /\ ~call.result.found
    /\ Len(call.result.steps) = 7
    /\ call.result.steps[2].action = "move"
    /\ call.result.steps[6].comparison = "move_right"
    /\ call.result.steps[7].action = "not_found"

\* C14: on an empty tree search_with_history returns (false, empty path) for
\* every target, and the BST engine returns found = false with zero
\* comparisons.
C14_EmptyTreeSearch ==
    (kind = "binary_search_tree" /\ tree.root = 0)
    => /\ \A t \in Targets(kind) :
            LET r == BinarySearchTree_search_with_history(DS, t)
            IN ~r.found /\ r.history = <<>>
       /\ Searched("bst")
            => /\ call.exc = ""
               /\ ~call.result.found
               /\ call.result.comparisons = 0
               /\ access_history = <<>>

C14_Witness ==
    /\ kind = "binary_search_tree" /\ tree.root = 0 /\ size = 0
    /\ Searched("bst") /\ call.exc = ""
    /\ call.target = 2
    /\ Len(call.result.steps) = 1

\* C18: the result's position is absent whenever found is false and whenever
\* the container is a tree; an array or linked-list search that found the
\* target carries a position, and the value stored there is the target.
C18_PositionPresence ==
    (call.op = "search" /\ call.exc = "")
    => /\ ~call.result.found => call.result.index = None
       /\ kind = "binary_search_tree" => call.result.index = None
       /\ (kind \in {"array", "linked_list"} /\ call.result.found)
            => /\ call.result.index \in 0..(size - 1)
               /\ data[call.result.index + 1] = call.target

C18_Witness ==
    /\ Searched("bst") /\ call.exc = ""
    /\ call.result.found
    /\ call.result.comparisons >= 2
    /\ call.result.index = None

\* number of nodes on the longest path from node down to a leaf
RECURSIVE Height(_, _)
Height(t, node) ==
    IF node = 0 THEN 0
    ELSE LET hl == Height(t, t.nodes[node].left)
             hr == Height(t, t.nodes[node].right)
         IN 1 + (IF hl > hr THEN hl ELSE hr)

\* C20: every search on a compatible container returns (binary search on an
\* unsorted array included), having examined at most size values on an array
\* or linked list and at most height-of-tree values on a tree.
C20_BoundedSearch ==
    (call.op = "search" /\ InTable(call.alg, kind))
    => LET bound == IF kind = "binary_search_tree" THEN Height(tree, tree.root) ELSE size
       IN /\ call.exc = ""
          /\ call.result.comparisons <= bound
          /\ Len(access_history) <= bound
          /\ Len(CompareSteps(call.result.steps)) <= bound

C20_Witness ==
    /\ Searched("binary") /\ kind = "array" /\ call.exc = ""
    /\ ~IsSorted(data)
    /\ Len(data) = 4
    /\ call.result.comparisons = 3

\* ---- C12 ---------------------------------------------------------------------
\* a positional read or write (array read, array write, linked-list read by
\* index) with an index outside [0, size)
OutOfRangeCall(c) ==
    /\ c.op \in {"getitem", "setitem", "get_value_at"}
    /\ ~(0 <= c.arg /\ c.arg < size)

\* C12: every positional read or write with an index outside [0, size) fails
\* with an out-of-range error (it returns nothing, neither a value nor a
\* placeholder) and leaves the container's contents and access history
\* unchanged.
C12_OutOfRangeFails ==
    [][OutOfRangeCall(call') => (call'.exc = "IndexError" /\ UNCHANGED container)]_vars

\* ---- C13 ---------------------------------------------------------------------
\* number of nodes reachable from node
RECURSIVE NodeCount(_, _)
NodeCount(t, node) ==
    IF node = 0 THEN 0
    ELSE 1 + NodeCount(t, t.nodes[node].left) + NodeCount(t, t.nodes[node].right)

\* C13: after any sequence of tree operations (construction, insert of new or
\* duplicate values, populate, search) the size query equals the number of
\* nodes; an insert of a value not yet present raises it by exactly one, an
\* insert of a value already present and every search leave it unchanged.
C13_SizeCountsNodes ==
    /\ [](kind = "binary_search_tree" => size = NodeCount(tree, tree.root))
    /\ [][kind = "binary_search_tree" =>
            LET present == call'.arg \in SubtreeVals(tree, tree.root)
            IN /\ (call'.op = "insert" /\ ~present) => size' = size + 1
               /\ (call'.op = "insert" /\ present) => (size' = size /\ tree' = tree)
               /\ call'.op = "search" => (size' = size /\ tree' = tree)]_vars

\* the last call inserted the root's value again into a tree of two nodes
C13_Witness ==
    /\ kind = "binary_search_tree" /\ call.op = "insert"
    /\ size = 2 /\ NodeCount(tree, tree.root) = 2
    /\ call.arg = tree.nodes[tree.root].val
    /\ inserted = {tree.nodes[1].val, tree.nodes[2].val}

\* ---- C17 ---------------------------------------------------------------------
\* C17: generate_random_data(size, min, max) with size >= 0 and min <= max
\* replaces the previous contents and leaves the access history empty; an
\* array or linked list then holds exactly `size` values, each within
\* [min, max], and its size query is `size`; a tree holds exactly
\* min(size, max-min+1) pairwise distinct values within [min, max] and its
\* size query is that number.
C17_Populate ==
    call.op = "populate"
    => LET n == call.arg
           k == Min(n, call.hi - call.lo + 1)
           keys == inorder_traversal(DS)
       IN /\ call.exc = "" /\ access_history = <<>>
          /\ kind # "binary_search_tree"
             => /\ size = n /\ Len(to_list(DS)) = n /\ tree = EmptyTree
                /\ \A i \in 1..n : call.lo <= data[i] /\ data[i] <= call.hi
          /\ kind = "binary_search_tree"
             => /\ size = k /\ NodeCount(tree, tree.root) = k /\ Len(tree.nodes) = k
                /\ Len(keys) = k /\ StrictlyAscending(keys) /\ data = <<>>
                /\ \A i \in 1..k : call.lo <= keys[i] /\ keys[i] <= call.hi
                /\ inserted = Range(keys)

\* a tree asked for two values out of a range that holds only one
C17_Witness ==
    /\ call.op = "populate" /\ kind = "binary_search_tree"
    /\ call.arg = 2 /\ call.lo = call.hi /\ size = 1

\* ---- C16 ---------------------------------------------------------------------
\* s is an initial part of t
IsPrefix(s, t) == Len(s) <= Len(t) /\ SubSeq(t, 1, Len(s)) = s

\* C16: the access history is the list of successful positional reads since
\* it was last emptied, in call order: each successful array read appends the
\* index read, each successful linked-list read appends the value read, so
\* the log grows by one entry per successful read; clear_history empties it,
\* and apart from clear_history, populate and a search no operation removes
\* an entry.
C16_AccessLog ==
    [][LET c == call'
       IN /\ (c.op = "getitem" /\ c.exc = "")
             => (access_history' = Append(access_history, c.arg) /\ c.ret = data[c.arg + 1])
          /\ (c.op = "get_value_at" /\ 0 <= c.arg /\ c.arg < size)
             => (access_history' = Append(access_history, data[c.arg + 1])
                 /\ c.ret = data[c.arg + 1])
          /\ c.op = "clear_history" => access_history' = <<>>
          /\ c.op \notin {"clear_history", "populate", "search"}
             => (IsPrefix(access_history, access_history')
                 /\ Len(access_history') <= Len(access_history) + 1)]_vars

\* two reads of a list after the log was emptied: position 1 holding 1, then
\* position 0 holding 2
C16_Witness ==
    /\ kind = "linked_list" /\ call.op = "get_value_at" /\ call.arg = 0
    /\ size = 2 /\ data[1] = 2 /\ data[2] = 1 /\ access_history = <<1, 2>>

\* ---- C15 ---------------------------------------------------------------------
\* C15: create_data_structure fails with an unsupported-kind error for every
\* kind other than array, linked_list and binary_search_tree, and
\* SearchAlgorithmFactory.search and get_algorithm fail with an error for every
\* algorithm name other than linear, binary and bst; no default container or
\* engine takes the place of the unknown one, and the container handed to
\* search is left unchanged.
C15_UnknownNamesFail ==
    /\ [](/\ \A k \in Kinds \cup UnknownKinds, d \in SeqsUpTo(Values, MaxInit) :
              LET r == create_data_structure(k, d)
              IN IF k \in {"array", "linked_list", "binary_search_tree"}
                 THEN r.exc = "" /\ r.ds.kind = k
                 ELSE r.exc = "ValueError" /\ r.ds = NoContainer
          /\ \A a \in AlgorithmNames \cup UnknownAlgorithms :
              LET r == SearchAlgorithmFactory_get_algorithm(a)
              IN IF a \in {"linear", "binary", "bst"}
                 THEN r.exc = "" /\ r.engine = a
                 ELSE r.exc = "ValueError" /\ r.engine = "none")
    /\ [][LET c == call'
           IN /\ (c.op = "create" /\ c.name \notin {"array", "linked_list", "binary_search_tree"})
                 => (c.exc = "ValueError" /\ UNCHANGED container)
              /\ (c.op = "create" /\ c.name \in {"array", "linked_list", "binary_search_tree"})
                 => (c.exc = "" /\ kind' = c.name)
              /\ (c.op = "search" /\ c.alg \notin {"linear", "binary", "bst"})
                 => (c.exc = "ValueError" /\ c.result = NoResult /\ UNCHANGED container)]_vars

\* a search under a name that differs from a table entry only in case, on an
\* array whose log still holds the reads of an earlier search
C15_Witness ==
    /\ call.op = "search" /\ call.alg = "Linear" /\ call.exc = "ValueError"
    /\ kind = "array" /\ size = 2 /\ Len(access_history) = 2

\* ---- C19 ---------------------------------------------------------------------
\* C19: an array built from a sequence of the calling code owns its storage and
\* log alone: sort, index write, append and populate never change that
\* sequence; a later change of that sequence never changes the array's
\* contents nor makes its size differ from its element count; and the list
\* handed out by get_access_history is altered by no later read or clear.
C19_ExclusiveOwnership ==
    [][LET c == call'
       IN /\ c.op \in {"sort", "setitem", "append", "populate"} => caller'.list = caller.list
          /\ c.op \in {"caller_append", "caller_pop"}
             => (data' = data /\ size' = Len(data'))
          /\ c.op # "get_access_history" => caller'.snap = caller.snap]_vars

\* ---- C21 ---------------------------------------------------------------------
\* the call that produced the current state was a search that returned
Returned == call.op = "search" /\ call.exc = ""

\* C21: in the step sequence of every search result, from any engine, the
\* k-th step carries step number k (k = 1..length), move steps and the final
\* not_found step included.
C21_StepNumbers ==
    Returned => \A k \in 1..Len(call.result.steps) : call.result.steps[k].step_num = k

\* a binary search that ends, after two compare steps and two move steps,
\* with a not_found step numbered 5
C21_Witness ==
    /\ Returned /\ call.alg = "binary" /\ Len(call.result.steps) = 5
    /\ call.result.steps[2].action = "move" /\ call.result.steps[4].action = "move"
    /\ call.result.steps[5].action = "not_found" /\ call.result.steps[5].step_num = 5

\* ---- C22 ---------------------------------------------------------------------
\* C22 as stated: for every tree and target, found or not, the step sequence
\* of a BST search is exactly the visited path: one step per visited node, in
\* root-to-deepest order, each carrying that node's value; its length is the
\* path length and it holds no other step.
C22_StepsArePath ==
    (Returned /\ call.alg = "bst")
    => LET path == DescentPath(tree, tree.root, call.target)
           steps == call.result.steps
       IN /\ Len(steps) = Len(path)
          /\ \A k \in 1..Len(steps) : steps[k].action = "compare" /\ steps[k].value = path[k]

\* C22 amended: the step sequence of a BST search is the visited path, one
\* compare step per visited node in root-to-deepest order carrying that
\* node's value and no position, followed, exactly when the target was not
\* found, by one final not_found step that carries no value; so its length
\* is the path length when found and the path length plus one when not.
C22_StepsArePathThenNotFound ==
    (Returned /\ call.alg = "bst")
    => LET path == DescentPath(tree, tree.root, call.target)
           steps == call.result.steps
           n == Len(path)
       IN /\ Len(steps) = (IF call.result.found THEN n ELSE n + 1)
          /\ \A k \in 1..n : /\ steps[k].action = "compare" /\ steps[k].value = path[k]
                               /\ steps[k].index = None
          /\ ~call.result.found
             => (steps[n + 1].action = "not_found" /\ steps[n + 1].value = None
                 /\ steps[n + 1].found = FALSE)

\* a miss after a descent through two nodes: three steps for a path of two
C22_Witness ==
    /\ Returned /\ call.alg = "bst" /\ ~call.result.found
    /\ Len(DescentPath(tree, tree.root, call.target)) = 2
    /\ Len(call.result.steps) = 3

\* ---- C23 ---------------------------------------------------------------------
\* C23: in every compare step of every engine the verdict follows from the
\* observed value and the target: equal iff value = target, less iff
\* value < target, greater iff value > target; the step's found flag is true
\* iff the verdict is equal, and a step with found = true is the last step.
C23_Verdicts ==
    Returned
    => LET steps == call.result.steps
       IN \A k \in 1..Len(steps) :
            /\ steps[k].action = "compare"
               => /\ steps[k].comparison \in {"equal", "less", "greater"}
                  /\ steps[k].comparison = "equal" <=> steps[k].value = call.target
                  /\ steps[k].comparison = "less" <=> steps[k].value < call.target
                  /\ steps[k].comparison = "greater" <=> steps[k].value > call.target
                  /\ steps[k].found <=> steps[k].comparison = "equal"
            /\ steps[k].found => k = Len(steps)

\* a tree search that met a larger key, then a smaller one, then the target
C23_Witness ==
    /\ Returned /\ call.alg = "bst" /\ Len(call.result.steps) = 3
    /\ call.result.steps[1].comparison = "greater"
    /\ call.result.steps[2].comparison = "less"
    /\ call.result.steps[3].comparison = "equal" /\ call.result.steps[3].found

\* ---- C24 ---------------------------------------------------------------------
\* the steps from the k-th on are those of a search whose window is
\* [low, high]: a compare probes floor((low+high)/2) inside the window, less
\* is followed by a move_right step and the window above the probe, greater
\* by a move_left step and the window below it, and the not_found step comes
\* when the window is empty
RECURSIVE WindowTrace(_, _, _, _)
WindowTrace(steps, k, low, high) ==
    IF k > Len(steps) THEN FALSE
    ELSE LET st == steps[k]
         IN IF st.action = "not_found" THEN low > high /\ k = Len(steps)
            ELSE /\ st.action = "compare"
                 /\ low <= st.index /\ st.index <= high
                 /\ 2 * st.index <= low + high /\ low + high <= 2 * st.index + 1
                 /\ IF st.comparison = "equal" THEN k = Len(steps)
                    ELSE /\ k < Len(steps) /\ steps[k + 1].action = "move"
                         /\ IF st.comparison = "less"
                            THEN /\ steps[k + 1].comparison = "move_right"
                                 /\ WindowTrace(steps, k + 2, st.index + 1, high)
                            ELSE /\ st.comparison = "greater"
                                 /\ steps[k + 1].comparison = "move_left"
                                 /\ WindowTrace(steps, k + 2, low, st.index - 1)

\* C24: binary search keeps a window low = 0, high = size - 1 and probes
\* mid = floor((low+high)/2): on any array, sorted or not, every probed index
\* lies in the window and in [0, size), so no read is out of range; after a
\* compare with verdict less comes a move_right step and every later probe
\* is strictly above that index, after greater a move_left step and every
\* later probe is strictly below; no index is probed twice.
C24_BinaryWindow ==
    (Searched("binary") /\ kind = "array")
    => LET steps == call.result.steps
           probes == CompareSteps(steps)
       IN /\ call.exc = ""
          /\ WindowTrace(steps, 1, 0, size - 1)
          /\ \A i \in 1..Len(probes) : 0 <= probes[i].index /\ probes[i].index < size
          /\ \A i, j \in 1..Len(probes) :
                i < j => /\ probes[i].comparison = "less" => probes[j].index > probes[i].index
                         /\ probes[i].comparison = "greater" => probes[j].index < probes[i].index
                         /\ probes[i].index # probes[j].index
          /\ access_history = [i \in 1..Len(probes) |-> probes[i].index]

\* three probes of an unsorted array of four, moving right twice
C24_Witness ==
    /\ Searched("binary") /\ kind = "array" /\ size = 4 /\ ~IsSorted(data)
    /\ access_history = <<1, 2, 3>>
    /\ call.result.steps[2].comparison = "move_right"

\* ---- C25 ---------------------------------------------------------------------
\* C25: when a search returns, whatever the access history held before the
\* call, the container's log holds exactly the reads of that search: for an
\* array the index fields of the result's compare steps, for a linked list
\* and a tree their value fields, in the same order.
C25_LogIsThisSearch ==
    Returned
    => LET probes == CompareSteps(call.result.steps)
       IN access_history = [i \in 1..Len(probes) |->
                               IF kind = "array" THEN probes[i].index ELSE probes[i].value]

\* the second of two linear searches of an array in a row, each reading two
\* positions
C25_Witness ==
    /\ Returned /\ kind = "array" /\ call.alg = "linear"
    /\ call.prev.alg = "linear" /\ call.prev.result.comparisons = 2
    /\ access_history = <<0, 1>>

C27_BinaryMeetsSorted ==
    (call.op = "search" /\ call.alg = "binary") => (kind = "array" /\ IsSorted(data))

\* ---- C28 ---------------------------------------------------------------------
\* what the last controller call did: next_step at or past the last step and
\* previous_step at the first step return false and leave current_step as it
\* was, otherwise they move it by exactly one and return true; reset and
\* setup_search put it at 0
ReplayMoves ==
    LET c == controller
        last == Len(c.search_result.steps) - 1
    IN /\ call.op = "next_step"
          => IF c.before >= last THEN ~c.ret /\ c.current_step = c.before
             ELSE c.ret /\ c.current_step = c.before + 1
       /\ call.op = "previous_step"
          => IF c.before = 0 THEN ~c.ret /\ c.current_step = c.before
             ELSE c.ret /\ c.current_step = c.before - 1
       /\ call.op \in {"reset", "setup_search"} => c.current_step = 0

C29_DerivedReadAfterStatistics ==
    call.op \in {"complexity_analysis", "get_best_algorithm_by_metric", "to_dict",
                 "generate_comparison_report"}
        => (~tester.unready /\ call.exc # "AttributeError")

\* ---- C30 ---------------------------------------------------------------------
\* the (type, size) groups of the stored results, from the objects themselves
StoredGroups ==
    {<<tester.results[i].metrics.data_structure_type,
       tester.results[i].metrics.data_size>> : i \in 1..Len(tester.results)}

\* key.split('_') gives back what batch_test joined
KeyRecovered(item) ==
    LET parsed == ParseKey(item.key)
    IN /\ parsed.exc = ""
       /\ parsed.algorithm = Str(item.metrics.algorithm_name)
       /\ parsed.group_key = Str(item.metrics.data_structure_type) \o <<"_">>
                               \o <<ToString(item.metrics.data_size)>>

\* C30: when get_best_algorithm_by_metric is called with one of its metrics on
\* results batch_test stored, all with their statistics calculated, it does not
\* raise, every stored key gives back its algorithm, type and size, and the
\* returned dict has exactly one entry per (type, size) group.
C30_BestPerGroup ==
    (/\ call.op = "get_best_algorithm_by_metric"
     /\ call.name \in {"avg_time", "avg_comparisons", "success_rate"}
     /\ \A i \in 1..Len(tester.results) : tester.results[i].metrics.has_stats)
        => /\ call.exc = ""
           /\ \A i \in 1..Len(tester.results) : KeyRecovered(tester.results[i])
           /\ Len(tester.ret) = Cardinality(StoredGroups)

====
